---- MODULE Spec2Model ----
(***************************************************************************)
(* Model of the request pipeline of routes/encryption.js (the file         *)
(* src/unnamed/part_001) with the mongoose schema of                        *)
(* src/models/EncryptedImage.js.                                            *)
(*                                                                         *)
(* Every request is one entry of reqs; its pc is the await the handler is  *)
(* suspended at.  A step of the model is the code a handler runs between   *)
(* two awaits.  The python scripts (python/encryption.py,                  *)
(* python/steganography.py, python/metrics_analyzer.py) are external       *)
(* capabilities: their effect is modelled from the capability contract     *)
(* (the Py* operators and the Metric* sets).                               *)
(***************************************************************************)
EXTENDS Integers, Sequences, FiniteSets, TLC

\* ------------------------------------------------------------------ bounds
MaxReq == 2         \* requests the model lets arrive
MaxClock == 1       \* Date.now() ranges over 0..MaxClock
MaxRand == 2        \* Math.round(Math.random() * 1E9) ranges over 0..MaxRand-1

ReqIds == 1..MaxReq
Ids == 1..MaxReq                        \* ObjectIds: a request creates at most one
Clock == 0..MaxClock
RandSuffix == 0..(MaxRand - 1)

\* ------------------------------------------------------------------ inputs
NoKey == << >>                          \* req.body.key absent or ""
Key7 == <<1, 1, 1, 1, 1, 1, 1>>          \* a 7 character key
KeyA == <<1, 1, 1, 1, 1, 1, 1, 1>>       \* an 8 character key
Keys == {NoKey, Key7, KeyA}

Raw(d) == [tag |-> "raw", data |-> d]
Artifacts == {Raw("imgA"), Raw("imgB")} \* image contents a client can upload
CoverArtifact == Raw("cover")
FileNames == {"pic.png"}                \* file.originalname
AbsentMap == "absent"                   \* req.body.chaoticMap not sent
MapInputs == {AbsentMap, "zigzag"}        \* req.body.chaoticMap as sent
Undefined == -1                         \* a field the metrics document lacks
MetricVals == {Undefined, 3}

NoPath == [op |-> "none", t |-> 0, rnd |-> 0, name |-> ""]
NoId == 0                               \* no document: a null _id
NoContent == [tag |-> "none"]

ViewKinds == {"images", "admin-stats", "metrics-all", "metrics-stats"}
Kinds == {"encrypt", "decrypt", "encrypt-stego", "decrypt-stego", "delete"} \cup ViewKinds
EncryptKinds == {"encrypt", "encrypt-stego"}
DecryptKinds == {"decrypt", "decrypt-stego"}

\* ---------------------------------------------------------- program values
MinKeyLength == 8
ChaoticMapEnum == {"logistic", "arnold", "tent", "henon"}

VARIABLES
    reqs,        \* request id -> the request's handler state and response
    fs,          \* the disk: path -> content of the file at that path
    db,          \* the EncryptedImage collection: _id -> document
    now,         \* Date.now()
    nextId,      \* the next ObjectId mongoose hands out
    downloaded   \* the content the client got from its last GET download/:id

vars == <<reqs, fs, db, now, nextId, downloaded>>

\* ------------------------------------------------------------- file system
existsSync(disk, p) == p \in DOMAIN disk

writeFile(disk, p, c) ==
    [q \in (DOMAIN disk) \cup {p} |-> IF q = p THEN c ELSE disk[q]]

unlinkIfPresent(disk, p) == [q \in (DOMAIN disk) \ {p} |-> disk[q]]

\* fs.unlinkSync(p): throws ENOENT when p names no file
unlinkSync(disk, p) ==
    [disk |-> unlinkIfPresent(disk, p), threw |-> ~existsSync(disk, p)]

\* the unlink without its existsSync test
unlinkGuarded_noTest(disk, p) == unlinkSync(disk, p)

\* if (fs.existsSync(p)) fs.unlinkSync(p)
unlinkGuarded(disk, p) ==
    IF existsSync(disk, p) THEN unlinkSync(disk, p) ELSE [disk |-> disk, threw |-> FALSE]

\* multer's filename callback: Date.now() + '-' + random + '-' + originalname
filename(t, rnd, name) == [op |-> "upload", t |-> t, rnd |-> rnd, name |-> name]

\* the paths multer has handed out so far
StagedPaths ==
    UNION {{reqs[r].path, reqs[r].cover} : r \in ReqIds} \ {NoPath}

\* The random suffix is taken as a fresh nonce: within one millisecond and
\* one original name no value of Math.random() repeats, so that a staged path
\* belongs to one request (the "unique, collision-free staging path" of the
\* Temporary Resource Manager).
FreshSuffix(p) == p \notin StagedPaths

\* ------------------------------------------------- the external capability
\* python/encryption.py and python/steganography.py, from their contract:
\* one structured document with success and, on success, an output path.
\* The output file is written next to the input it was derived from.
PyOutPath(op, inPath) == [inPath EXCEPT !.op = op]

PyEncrypt(c, key, map) == [tag |-> "enc", of |-> c, key |-> key, map |-> map]

PyEmbed(secret, cov, key, map) ==
    [tag |-> "stego", of |-> secret, cover |-> cov, key |-> key, map |-> map]

\* decrypt and extract invert encrypt and embed under the same key only
PyInverts(op, c, key) ==
    /\ c.tag = (IF op = "decrypt" THEN "enc" ELSE "stego")
    /\ c.key = key

\* the file decrypt or extract writes for an input it inverts
PyDecrypt(c) == c.of

\* What one run of a script can end in: "ok" (success: true and the output
\* written), "nofile" (success: true, the output path names no file), "fail"
\* (success: false), "reject" (non-zero exit, timeout, overflow, output that
\* does not parse).
PyOutcomes(op, disk, inPath, key) ==
    {"fail", "reject"}
      \cup (IF /\ existsSync(disk, inPath)
               /\ op \in {"decrypt", "extract"} => PyInverts(op, disk[inPath], key)
            THEN {"ok"} \cup (IF op \in {"decrypt", "extract"} THEN {"nofile"} ELSE {})
            ELSE {})

\* python/metrics_analyzer.py: the document it prints on success
MetricPayloads ==
    {[hasEntropy |-> (v # Undefined), entropy |-> [original |-> v, encrypted |-> v],
      npcr |-> v, uaci |-> v, correlation |-> v, psnr |-> v, mse |-> v] :
        v \in MetricVals}

MetricOutcomes == {"ok", "fail", "reject"}

\* One run of exec: error is what the callback gets as its first argument
\* ("exit": a non-zero exit status; "killed": the 30 s timeout or the 50 MB
\* maxBuffer was passed), stdout what the process printed: one of the
\* documents, or text that is no JSON document ("garbage").
NoRun == [error |-> "none", stdout |-> "none"]

ExecRuns(outcomes) ==
    {[error |-> "none", stdout |-> d] : d \in (outcomes \ {"reject"}) \cup {"garbage"}}
      \cup {[error |-> "exit", stdout |-> "fail"], [error |-> "killed", stdout |-> "garbage"]}

\* JSON.parse(stdout.trim()) returns
jsonParses(stdout) == stdout # "garbage"

\* the callback with the test of its error argument left out
execCallback_ignoresError(run) ==
    IF ~jsonParses(run.stdout) THEN "reject" ELSE run.stdout

\* the callback exec calls once: reject on error, else resolve with the parsed
\* document or reject when stdout does not parse
execCallback(run) ==
    IF run.error # "none" THEN "reject"
    ELSE IF ~jsonParses(run.stdout) THEN "reject"
    ELSE run.stdout

\* the error argument of exec's callback ignored
runPythonScript_neverRejects(outcome) == "resolved"

\* ------------------------------------------------------------ runPythonScript
\* exec's callback: rejects on error, resolves with JSON.parse(stdout) else
runPythonScript(outcome) == IF outcome = "reject" THEN "rejected" ELSE "resolved"

\* ------------------------------------------------------------------ metrics
\* calculatedMetrics as first assigned: all defaults but the elapsed time
defaultMetrics(encryptionTime) ==
    [encryptionTime |-> encryptionTime,
     entropy |-> [original |-> 0, encrypted |-> 0],
     NPCR |-> 0, UACI |-> 0, correlation |-> 0, PSNR |-> 0, MSE |-> 0]

\* x || 0 on a number: an absent or zero field reads 0
orZero(x) == IF x = Undefined THEN 0 ELSE x

\* the test of metricsResult.success left out
encryptMetrics_unchecked(outcome, m, encryptionTime) ==
    IF outcome # "reject"
    THEN [encryptionTime |-> encryptionTime,
          entropy |-> IF m.hasEntropy THEN m.entropy
                      ELSE [original |-> 0, encrypted |-> 0],
          NPCR |-> orZero(m.npcr), UACI |-> orZero(m.uaci),
          correlation |-> orZero(m.correlation), PSNR |-> 0, MSE |-> 0]
    ELSE defaultMetrics(encryptionTime)

\* POST /encrypt: calculatedMetrics after the metrics script has settled
encryptMetrics(outcome, m, encryptionTime) ==
    IF outcome = "ok"
    THEN [encryptionTime |-> encryptionTime,
          entropy |-> IF m.hasEntropy THEN m.entropy
                      ELSE [original |-> 0, encrypted |-> 0],
          NPCR |-> orZero(m.npcr), UACI |-> orZero(m.uaci),
          correlation |-> orZero(m.correlation), PSNR |-> 0, MSE |-> 0]
    ELSE defaultMetrics(encryptionTime)

\* every field of the metrics document copied, as POST /encrypt copies its own
stegoMetrics_copiesAll(outcome, m, encryptionTime) ==
    IF outcome = "ok"
    THEN [encryptionTime |-> encryptionTime,
          entropy |-> IF m.hasEntropy THEN m.entropy
                      ELSE [original |-> 0, encrypted |-> 0],
          NPCR |-> orZero(m.npcr), UACI |-> orZero(m.uaci),
          correlation |-> orZero(m.correlation),
          PSNR |-> orZero(m.psnr), MSE |-> orZero(m.mse)]
    ELSE defaultMetrics(encryptionTime)

\* POST /encrypt-stego: calculatedMetrics after the metrics script has settled
stegoMetrics(outcome, m, encryptionTime) ==
    IF outcome = "ok"
    THEN [defaultMetrics(encryptionTime) EXCEPT
            !.PSNR = orZero(m.psnr), !.MSE = orZero(m.mse)]
    ELSE defaultMetrics(encryptionTime)

\* the schema without its encryptionTime path
schemaMetrics_noTime(m) ==
    [encryptionTime |-> 0,
     entropy |-> [original |-> m.entropy.original, encrypted |-> m.entropy.encrypted],
     npcr |-> 0, uaci |-> 0]

\* The schema's metrics sub-document: the paths it declares are
\* encryptionTime, entropy.original, entropy.encrypted, npcr and uaci; a key
\* the schema does not declare is not stored, a declared path that was not
\* given takes its default.
schemaMetrics(m) ==
    [encryptionTime |-> m.encryptionTime,
     entropy |-> [original |-> m.entropy.original, encrypted |-> m.entropy.encrypted],
     npcr |-> 0, uaci |-> 0]

\* ---------------------------------------------------------------- requests
NoView == [count |-> 0, totalTime |-> 0]

EmptyReq ==
    [kind |-> "none", pc |-> "idle",
     path |-> NoPath, cover |-> NoPath,      \* req.file.path / secret and cover
     content |-> NoContent,                  \* what the client uploaded
     originalName |-> "", key |-> NoKey, map |-> AbsentMap, id |-> NoId,
     startTime |-> 0, encryptionTime |-> 0,
     settledAt |-> 0,                        \* the clock when the script settled
     tres |-> "none", outPath |-> NoPath,    \* how the transformation settled
     mres |-> "none", metrics |-> defaultMetrics(0),
     doc |-> NoId, sres |-> "none", nsaved |-> 0,
     found |-> FALSE, image |-> [encryptedPath |-> NoPath, originalPath |-> NoPath],
     invocations |-> 0,                      \* calls of runPythonScript
     settled |-> 0, run |-> NoRun,           \* calls settled, and the last run
     status |-> 0, sent |-> 0, hint |-> FALSE, imageId |-> NoId,
     respTime |-> 0, respMetrics |-> defaultMetrics(0),
     served |-> NoContent, recordAtEnd |-> FALSE,
     view |-> NoView,                        \* what a view answered
     absentAtRelease |-> FALSE]              \* a cleanup met a file already gone

Init ==
    /\ reqs = [r \in ReqIds |-> EmptyReq]
    /\ fs = [p \in {} |-> NoContent]
    /\ db = [i \in {} |-> NoId]
    /\ now = 0
    /\ nextId = 1
    /\ downloaded = NoContent

\* requests arrive in the order of their ids
CanArrive(r) ==
    /\ reqs[r].pc = "idle"
    /\ \A q \in ReqIds : q < r => reqs[q].pc # "idle"

\* what a client can put into an upload: an image of its own or the file it
\* downloaded last
Uploadable == Artifacts \cup ({downloaded} \ {NoContent})

\* the handler returning without an answer
json_noResponse(q, st, dbAfter) ==
    [q EXCEPT !.pc = "done", !.status = st,
              !.recordAtEnd = (q.doc # NoId /\ q.doc \in DOMAIN dbAfter)]

\* res.status(st).json(...), ending the request
json(q, st, dbAfter) ==
    [q EXCEPT !.pc = "done", !.status = st, !.sent = @ + 1,
              !.recordAtEnd = (q.doc # NoId /\ q.doc \in DOMAIN dbAfter)]

Tick ==
    /\ now < MaxClock
    /\ now' = now + 1
    /\ UNCHANGED <<reqs, fs, db, nextId, downloaded>>

\* ------------------------------------------------------------------- multer
\* upload.single('image') in front of /encrypt, /decrypt and /decrypt-stego:
\* the file, when the request carries one, is written under the name the
\* filename callback returns; nonce says whether the random suffix is taken
\* as fresh
multerSingle(r, nonce) ==
    /\ CanArrive(r)
    /\ \E kind \in {"encrypt", "decrypt", "decrypt-stego"}, key \in Keys,
          map \in MapInputs, present \in BOOLEAN :
        /\ kind # "encrypt" => map = AbsentMap
        /\ IF present
           THEN \E c \in Uploadable, name \in FileNames, rnd \in RandSuffix :
                  LET p == filename(now, rnd, name) IN
                  /\ nonce => FreshSuffix(p)
                  /\ fs' = writeFile(fs, p, c)
                  /\ reqs' = [reqs EXCEPT ![r] =
                        [@ EXCEPT !.kind = kind, !.pc = "uploaded", !.key = key,
                                  !.map = map, !.path = p, !.content = c,
                                  !.originalName = name]]
           ELSE /\ fs' = fs
                /\ reqs' = [reqs EXCEPT ![r] =
                        [@ EXCEPT !.kind = kind, !.pc = "uploaded", !.key = key,
                                  !.map = map]]
    /\ UNCHANGED <<db, now, nextId, downloaded>>

UploadSingle(r) == multerSingle(r, TRUE)

\* upload.fields([secretImage, coverImage]) in front of /encrypt-stego
UploadFields(r) ==
    /\ CanArrive(r)
    /\ \E key \in Keys, map \in MapInputs, hasSecret \in BOOLEAN, hasCover \in BOOLEAN,
          c \in Uploadable, name \in FileNames, r1 \in RandSuffix, r2 \in RandSuffix :
        LET p1 == IF hasSecret THEN filename(now, r1, name) ELSE NoPath
            p2 == IF hasCover THEN filename(now, r2, name) ELSE NoPath
            d1 == IF hasSecret THEN writeFile(fs, p1, c) ELSE fs
            d2 == IF hasCover THEN writeFile(d1, p2, CoverArtifact) ELSE d1
        IN
        /\ hasSecret => FreshSuffix(p1)
        /\ hasCover => FreshSuffix(p2)
        /\ (hasSecret /\ hasCover) => p1 # p2
        /\ fs' = d2
        /\ reqs' = [reqs EXCEPT ![r] =
              [@ EXCEPT !.kind = "encrypt-stego", !.pc = "uploaded", !.key = key,
                        !.map = map, !.path = p1, !.cover = p2,
                        !.content = IF hasSecret THEN c ELSE NoContent,
                        !.originalName = IF hasSecret THEN name ELSE ""]]
    /\ UNCHANGED <<db, now, nextId, downloaded>>

\* ------------------------------------------------------------- validation
\* const { key, chaoticMap = 'logistic' } = req.body
chaoticMapOf(m) == IF m = AbsentMap THEN "logistic" ELSE m

\* the length test off by one
keyRejected_lenient(key) == key = NoKey \/ Len(key) < MinKeyLength - 1

\* !key || key.length < 8
keyRejected(key) == key = NoKey \/ Len(key) < MinKeyLength

\* !key
keyMissing(key) == key = NoKey

\* the test of req.file left out
fileMissing_never(q) == FALSE

\* !req.file
fileMissing(q) == q.path = NoPath

\* !req.files || !req.files.secretImage || !req.files.coverImage
filesMissing(q) == q.path = NoPath \/ q.cover = NoPath

\* ------------------------------------------------------------- the schema
\* new EncryptedImage({...}) of POST /encrypt; size and mimeType are copied
\* from the upload and read by the statistics views only
encryptDocument(q) ==
    [originalName |-> q.originalName,
     encryptedName |-> <<q.originalName, "_encrypted_", q.startTime, ".bin">>,
     encryptedPath |-> q.outPath, originalPath |-> q.path,
     chaoticMap |-> chaoticMapOf(q.map), encryptionType |-> "basic",
     status |-> "completed", metrics |-> schemaMetrics(q.metrics)]

\* the document without its encryptionType: the schema's default applies
stegoDocument_defaultType(q) ==
    [originalName |-> q.originalName,
     encryptedName |-> <<"basename", q.outPath.op, q.outPath.t, ".png">>,
     encryptedPath |-> q.outPath, originalPath |-> q.path,
     chaoticMap |-> chaoticMapOf(q.map), encryptionType |-> "basic",
     status |-> "completed", metrics |-> schemaMetrics(q.metrics)]

\* new EncryptedImage({...}) of POST /encrypt-stego
stegoDocument(q) ==
    [originalName |-> q.originalName,
     encryptedName |-> <<"basename", q.outPath.op, q.outPath.t, ".png">>,
     encryptedPath |-> q.outPath, originalPath |-> q.path,
     chaoticMap |-> chaoticMapOf(q.map), encryptionType |-> "steganography",
     status |-> "completed", metrics |-> schemaMetrics(q.metrics)]

\* the schema's validators: required paths and the chaoticMap enum
schemaAccepts(d) ==
    /\ d.originalName # ""
    /\ d.encryptedPath # NoPath
    /\ d.chaoticMap \in ChaoticMapEnum
    /\ d.encryptionType \in {"basic", "steganography"}
    /\ d.status \in {"pending", "processing", "completed", "failed"}

\* newImage.save(): rejects a document the schema refuses; the store itself
\* can fail on any save
SaveOutcomes(d) == IF schemaAccepts(d) THEN {"ok", "rejected"} ELSE {"rejected"}

insert(store, id, d) ==
    [i \in (DOMAIN store) \cup {id} |-> IF i = id THEN d ELSE store[i]]

\* findById in place of findByIdAndDelete
remove_keeps(store, id) == store

remove(store, id) == [i \in (DOMAIN store) \ {id} |-> store[i]]

\* ------------------------------------------------------------ POST /encrypt
\* from the start of the handler to the call of the encryption script
EncryptHandler(r) ==
    LET q == [reqs[r] EXCEPT !.startTime = now] IN
    /\ reqs[r].kind = "encrypt" /\ reqs[r].pc = "uploaded"
    /\ reqs' = [reqs EXCEPT ![r] =
          IF fileMissing(q) THEN json(q, 400, db)
          ELSE IF keyRejected(q.key) THEN json(q, 400, db)
          ELSE [q EXCEPT !.pc = "transforming", !.invocations = @ + 1]]
    /\ UNCHANGED <<fs, db, now, nextId, downloaded>>

\* the encryption script has settled: up to the call of the metrics script
EncryptTransformed(r) ==
    LET q == reqs[r]
        out == PyOutPath("encrypt", q.path)
    IN
    /\ q.kind = "encrypt" /\ q.pc = "transforming"
    /\ \E run \in ExecRuns(PyOutcomes("encrypt", fs, q.path, q.key)) :
        LET o == execCallback(run)
            t == [q EXCEPT !.tres = o, !.run = run, !.settled = @ + 1]
        IN
        /\ o \in PyOutcomes("encrypt", fs, q.path, q.key)
        /\ IF runPythonScript(o) = "rejected" \/ o = "fail"
           THEN /\ reqs' = [reqs EXCEPT ![r] = json(t, 500, db)]
                /\ fs' = fs
           ELSE /\ fs' = writeFile(fs, out,
                            PyEncrypt(fs[q.path], q.key, chaoticMapOf(q.map)))
                /\ reqs' = [reqs EXCEPT ![r] =
                      [t EXCEPT !.encryptionTime = now - q.startTime, !.outPath = out,
                               !.settledAt = now,
                               !.metrics = defaultMetrics(now - q.startTime),
                               !.pc = "measuring", !.invocations = @ + 1]]
    /\ UNCHANGED <<db, now, nextId, downloaded>>

\* the metrics script has settled: up to newImage.save()
EncryptMeasured(r) ==
    LET q == reqs[r] IN
    /\ q.kind = "encrypt" /\ q.pc = "measuring"
    /\ nextId \in Ids
    /\ \E run \in ExecRuns(MetricOutcomes), m \in MetricPayloads :
        LET mo == execCallback(run) IN
        /\ mo \in MetricOutcomes
        /\ reqs' = [reqs EXCEPT ![r] =
              [q EXCEPT !.mres = mo, !.run = run, !.settled = @ + 1,
                        !.metrics = encryptMetrics(mo, m, q.encryptionTime),
                        !.doc = nextId, !.pc = "saving"]]
    /\ nextId' = nextId + 1
    /\ UNCHANGED <<fs, db, now, downloaded>>

\* the document written although save() rejected
EncryptSaved_storesOnReject(r) ==
    LET q == reqs[r]
        d == encryptDocument(q)
    IN
    /\ q.kind = "encrypt" /\ q.pc = "saving"
    /\ \E so \in SaveOutcomes(d) :
        IF so = "ok"
        THEN /\ db' = insert(db, q.doc, d)
             /\ reqs' = [reqs EXCEPT ![r] =
                   [json([q EXCEPT !.sres = so, !.nsaved = @ + 1], 200, db')
                      EXCEPT !.imageId = q.doc, !.respTime = q.encryptionTime,
                             !.respMetrics = q.metrics]]
        ELSE /\ db' = insert(db, q.doc, d)
             /\ reqs' = [reqs EXCEPT ![r] = json([q EXCEPT !.sres = so], 500, db)]
    /\ UNCHANGED <<fs, now, nextId, downloaded>>

\* save() has settled: the success response, or the catch block
EncryptSaved(r) ==
    LET q == reqs[r]
        d == encryptDocument(q)
    IN
    /\ q.kind = "encrypt" /\ q.pc = "saving"
    /\ \E so \in SaveOutcomes(d) :
        IF so = "ok"
        THEN /\ db' = insert(db, q.doc, d)
             /\ reqs' = [reqs EXCEPT ![r] =
                   [json([q EXCEPT !.sres = so, !.nsaved = @ + 1], 200, db')
                      EXCEPT !.imageId = q.doc, !.respTime = q.encryptionTime,
                             !.respMetrics = q.metrics]]
        ELSE /\ db' = db
             /\ reqs' = [reqs EXCEPT ![r] = json([q EXCEPT !.sres = so], 500, db)]
    /\ UNCHANGED <<fs, now, nextId, downloaded>>

\* ------------------------------------------- POST /decrypt, /decrypt-stego
\* The two handlers differ in the script they run and in the messages they
\* send; op is "decrypt" for encryption.py and "extract" for steganography.py.
decryptOp(kind) == IF kind = "decrypt" THEN "decrypt" ELSE "extract"

\* from the start of the handler to the call of the script
DecryptHandler(r) ==
    LET q == reqs[r] IN
    /\ q.kind = "decrypt" /\ q.pc = "uploaded"
    /\ reqs' = [reqs EXCEPT ![r] =
          IF fileMissing(q) THEN json(q, 400, db)
          ELSE IF keyMissing(q.key) THEN json(q, 400, db)
          ELSE [q EXCEPT !.pc = "transforming", !.invocations = @ + 1]]
    /\ UNCHANGED <<fs, db, now, nextId, downloaded>>

\* res.download given the uploaded file in place of the script's output
decryptSettled_servesInput(r, run) ==
    LET o == execCallback(run)
        q == [reqs[r] EXCEPT !.tres = o, !.run = run, !.settled = @ + 1]
        op == decryptOp(q.kind)
        out == PyOutPath(op, q.path)
        disk == IF o = "ok" THEN writeFile(fs, out, PyDecrypt(fs[q.path])) ELSE fs
    IN
    IF runPythonScript(o) = "rejected"
    THEN /\ reqs' = [reqs EXCEPT ![r] = json(q, 500, db)]
         /\ fs' = fs
    ELSE IF o = "fail"
    THEN /\ fs' = unlinkSync(fs, q.path).disk      \* try { unlinkSync } catch {}
         /\ reqs' = [reqs EXCEPT ![r] =
               [json(q, 500, db) EXCEPT !.hint = TRUE,
                                        !.absentAtRelease = ~existsSync(fs, q.path)]]
    ELSE IF ~existsSync(disk, out)
    THEN /\ reqs' = [reqs EXCEPT ![r] = json([q EXCEPT !.outPath = out], 500, db)]
         /\ fs' = disk
    ELSE /\ fs' = disk
         /\ reqs' = [reqs EXCEPT ![r] =
               [q EXCEPT !.outPath = q.path, !.pc = "transferring", !.status = 200,
                         !.sent = @ + 1]]

\* the script has settled: the failure responses, or the start of res.download
decryptSettled(r, run) ==
    LET o == execCallback(run)
        q == [reqs[r] EXCEPT !.tres = o, !.run = run, !.settled = @ + 1]
        op == decryptOp(q.kind)
        out == PyOutPath(op, q.path)
        disk == IF o = "ok" THEN writeFile(fs, out, PyDecrypt(fs[q.path])) ELSE fs
    IN
    IF runPythonScript(o) = "rejected"
    THEN /\ reqs' = [reqs EXCEPT ![r] = json(q, 500, db)]
         /\ fs' = fs
    ELSE IF o = "fail"
    THEN /\ fs' = unlinkSync(fs, q.path).disk      \* try { unlinkSync } catch {}
         /\ reqs' = [reqs EXCEPT ![r] =
               [json(q, 500, db) EXCEPT !.hint = TRUE,
                                        !.absentAtRelease = ~existsSync(fs, q.path)]]
    ELSE IF ~existsSync(disk, out)
    THEN /\ reqs' = [reqs EXCEPT ![r] = json([q EXCEPT !.outPath = out], 500, db)]
         /\ fs' = disk
    ELSE /\ fs' = disk
         /\ reqs' = [reqs EXCEPT ![r] =
               [q EXCEPT !.outPath = out, !.pc = "transferring", !.status = 200,
                         !.sent = @ + 1]]

DecryptTransformed(r) ==
    LET q == reqs[r] IN
    /\ q.kind = "decrypt" /\ q.pc = "transforming"
    /\ \E run \in ExecRuns(PyOutcomes("decrypt", fs, q.path, q.key)) :
        /\ execCallback(run) \in PyOutcomes("decrypt", fs, q.path, q.key)
        /\ decryptSettled(r, run)
    /\ UNCHANGED <<db, now, nextId, downloaded>>

\* the cleanup skipped when the transfer failed
downloadCallback_returnsOnError(r, downloadError) ==
    LET q == reqs[r]
        u1 == unlinkGuarded(fs, q.path)
        u2 == IF u1.threw THEN u1 ELSE unlinkGuarded(u1.disk, q.outPath)
    IN
    /\ fs' = IF downloadError THEN fs ELSE u2.disk
    /\ reqs' = [reqs EXCEPT ![r] =
          [q EXCEPT !.pc = "done",
                    !.absentAtRelease = ~existsSync(fs, q.path) \/ ~existsSync(fs, q.outPath),
                    !.served = IF downloadError \/ ~existsSync(fs, q.outPath)
                               THEN NoContent ELSE fs[q.outPath]]]

\* the callback of res.download: the transfer has ended, with or without error
downloadCallback(r, downloadError) ==
    LET q == reqs[r]
        u1 == unlinkGuarded(fs, q.path)
        u2 == IF u1.threw THEN u1 ELSE unlinkGuarded(u1.disk, q.outPath)
    IN
    /\ fs' = u2.disk
    /\ reqs' = [reqs EXCEPT ![r] =
          [q EXCEPT !.pc = "done",
                    !.absentAtRelease = ~existsSync(fs, q.path) \/ ~existsSync(fs, q.outPath),
                    !.served = IF downloadError \/ ~existsSync(fs, q.outPath)
                               THEN NoContent ELSE fs[q.outPath]]]

DecryptTransferred(r) ==
    /\ reqs[r].kind = "decrypt" /\ reqs[r].pc = "transferring"
    /\ \E downloadError \in BOOLEAN : downloadCallback(r, downloadError)
    /\ UNCHANGED <<db, now, nextId, downloaded>>

StegoDecryptHandler(r) ==
    LET q == reqs[r] IN
    /\ q.kind = "decrypt-stego" /\ q.pc = "uploaded"
    /\ reqs' = [reqs EXCEPT ![r] =
          IF fileMissing(q) THEN json(q, 400, db)
          ELSE IF keyMissing(q.key) THEN json(q, 400, db)
          ELSE [q EXCEPT !.pc = "transforming", !.invocations = @ + 1]]
    /\ UNCHANGED <<fs, db, now, nextId, downloaded>>

StegoDecryptTransformed(r) ==
    LET q == reqs[r] IN
    /\ q.kind = "decrypt-stego" /\ q.pc = "transforming"
    /\ \E run \in ExecRuns(PyOutcomes("extract", fs, q.path, q.key)) :
        /\ execCallback(run) \in PyOutcomes("extract", fs, q.path, q.key)
        /\ decryptSettled(r, run)
    /\ UNCHANGED <<db, now, nextId, downloaded>>

StegoDecryptTransferred(r) ==
    /\ reqs[r].kind = "decrypt-stego" /\ reqs[r].pc = "transferring"
    /\ \E downloadError \in BOOLEAN : downloadCallback(r, downloadError)
    /\ UNCHANGED <<db, now, nextId, downloaded>>

\* ------------------------------------------------------ POST /encrypt-stego
StegoEncryptHandler(r) ==
    LET q == [reqs[r] EXCEPT !.startTime = now] IN
    /\ reqs[r].kind = "encrypt-stego" /\ reqs[r].pc = "uploaded"
    /\ reqs' = [reqs EXCEPT ![r] =
          IF filesMissing(q) THEN json(q, 400, db)
          ELSE IF keyRejected(q.key) THEN json(q, 400, db)
          ELSE [q EXCEPT !.pc = "transforming", !.invocations = @ + 1]]
    /\ UNCHANGED <<fs, db, now, nextId, downloaded>>

StegoEncryptTransformed(r) ==
    LET q == reqs[r]
        out == PyOutPath("embed", q.path)
    IN
    /\ q.kind = "encrypt-stego" /\ q.pc = "transforming"
    /\ \E run \in ExecRuns(PyOutcomes("embed", fs, q.path, q.key)) :
        LET o == execCallback(run)
            t == [q EXCEPT !.tres = o, !.run = run, !.settled = @ + 1]
        IN
        /\ o \in PyOutcomes("embed", fs, q.path, q.key)
        /\ o = "ok" => existsSync(fs, q.cover)
        /\ IF runPythonScript(o) = "rejected" \/ o = "fail"
           THEN /\ reqs' = [reqs EXCEPT ![r] = json(t, 500, db)]
                /\ fs' = fs
           ELSE /\ fs' = writeFile(fs, out,
                            PyEmbed(fs[q.path], fs[q.cover], q.key, chaoticMapOf(q.map)))
                /\ reqs' = [reqs EXCEPT ![r] =
                      [t EXCEPT !.encryptionTime = now - q.startTime, !.outPath = out,
                               !.settledAt = now,
                               !.metrics = defaultMetrics(now - q.startTime),
                               !.pc = "measuring", !.invocations = @ + 1]]
    /\ UNCHANGED <<db, now, nextId, downloaded>>

StegoEncryptMeasured(r) ==
    LET q == reqs[r] IN
    /\ q.kind = "encrypt-stego" /\ q.pc = "measuring"
    /\ nextId \in Ids
    /\ \E run \in ExecRuns(MetricOutcomes), m \in MetricPayloads :
        LET mo == execCallback(run) IN
        /\ mo \in MetricOutcomes
        /\ reqs' = [reqs EXCEPT ![r] =
              [q EXCEPT !.mres = mo, !.run = run, !.settled = @ + 1,
                        !.metrics = stegoMetrics(mo, m, q.encryptionTime),
                        !.doc = nextId, !.pc = "saving"]]
    /\ nextId' = nextId + 1
    /\ UNCHANGED <<fs, db, now, downloaded>>

StegoEncryptSaved(r) ==
    LET q == reqs[r]
        d == stegoDocument(q)
    IN
    /\ q.kind = "encrypt-stego" /\ q.pc = "saving"
    /\ \E so \in SaveOutcomes(d) :
        IF so = "ok"
        THEN /\ db' = insert(db, q.doc, d)
             /\ reqs' = [reqs EXCEPT ![r] =
                   [json([q EXCEPT !.sres = so, !.nsaved = @ + 1], 200, db')
                      EXCEPT !.imageId = q.doc, !.respTime = q.encryptionTime,
                             !.respMetrics = q.metrics]]
        ELSE /\ db' = db
             /\ reqs' = [reqs EXCEPT ![r] = json([q EXCEPT !.sres = so], 500, db)]
    /\ UNCHANGED <<fs, now, nextId, downloaded>>

\* ------------------------------------------------------ DELETE /images/:id
\* the request arrives and the handler calls findByIdAndDelete
DeleteHandler(r) ==
    /\ CanArrive(r)
    /\ \E id \in Ids :
        reqs' = [reqs EXCEPT ![r] = [@ EXCEPT !.kind = "delete", !.pc = "deleting", !.id = id]]
    /\ UNCHANGED <<fs, db, now, nextId, downloaded>>

\* findByIdAndDelete has settled: 404, or the files are unlinked
DeleteSettled(r) ==
    LET q == reqs[r]
        found == q.id \in DOMAIN db
        image == IF found THEN [encryptedPath |-> db[q.id].encryptedPath,
                                originalPath |-> db[q.id].originalPath]
                 ELSE q.image
        u1 == unlinkGuarded(fs, image.encryptedPath)
        u2 == IF u1.threw \/ image.originalPath = NoPath THEN u1
              ELSE unlinkGuarded(u1.disk, image.originalPath)
        absent == \E p \in {image.encryptedPath, image.originalPath} \ {NoPath} :
                     ~existsSync(fs, p)
    IN
    /\ q.kind = "delete" /\ q.pc = "deleting"
    /\ db' = remove(db, q.id)
    /\ IF ~found
       THEN /\ reqs' = [reqs EXCEPT ![r] = json(q, 404, db')]
            /\ fs' = fs
       ELSE /\ fs' = u2.disk
            /\ reqs' = [reqs EXCEPT ![r] =
                  json([q EXCEPT !.found = TRUE, !.image = image,
                                 !.absentAtRelease = absent],
                       IF u2.threw THEN 500 ELSE 200, db')]   \* a throw ends in catch
    /\ UNCHANGED <<now, nextId, downloaded>>

\* -------------------------------------- GET /download/:id, /download-stego/:id
\* the file unlinked once it is sent, as the decrypt handlers do
Download_unlinks(id) ==
    /\ id \in DOMAIN db
    /\ existsSync(fs, db[id].encryptedPath)
    /\ downloaded' = fs[db[id].encryptedPath]
    /\ fs' = unlinkIfPresent(fs, db[id].encryptedPath)
    /\ UNCHANGED <<reqs, db, now, nextId>>

Download(id) ==
    /\ id \in DOMAIN db
    /\ existsSync(fs, db[id].encryptedPath)
    /\ downloaded' = fs[db[id].encryptedPath]
    /\ UNCHANGED <<reqs, fs, db, now, nextId>>

DownloadStego(id) ==
    /\ id \in DOMAIN db
    /\ db[id].encryptionType = "steganography"
    /\ existsSync(fs, db[id].encryptedPath)
    /\ downloaded' = fs[db[id].encryptedPath]
    /\ UNCHANGED <<reqs, fs, db, now, nextId>>

\* ------------------------------------------------------------ the views
\* EncryptedImage.find(): a query, it writes nothing
find(store) == {[id |-> i, doc |-> store[i]] : i \in DOMAIN store}

countDocuments(store) == Cardinality(DOMAIN store)

\* images.reduce((sum, img) => sum + (img.metrics?.encryptionTime || 0), 0)
RECURSIVE totalTime(_)
totalTime(images) ==
    IF images = {} THEN 0
    ELSE LET img == CHOOSE x \in images : TRUE
         IN  img.doc.metrics.encryptionTime + totalTime(images \ {img})

\* a handler that awaits one query and answers from what it returned, or
\* answers 500 from its catch block when the query rejects
view(r, kind, answer) ==
    /\ CanArrive(r)
    /\ \E queryRejects \in BOOLEAN :
        reqs' = [reqs EXCEPT ![r] =
            IF queryRejects
            THEN json([@ EXCEPT !.kind = kind], 500, db)
            ELSE json([@ EXCEPT !.kind = kind, !.view = answer], 200, db)]
    /\ UNCHANGED <<fs, db, now, nextId, downloaded>>

\* GET /images: the documents, newest first
ListImages(r) == view(r, "images", [NoView EXCEPT !.count = Cardinality(find(db))])

\* GET /api/admin/stats: countDocuments and an aggregate over size
AdminStats(r) == view(r, "admin-stats", [NoView EXCEPT !.count = countDocuments(db)])

\* GET /api/metrics/all: count, averages and the ten most recent operations
MetricsAll(r) ==
    view(r, "metrics-all",
         [count |-> Cardinality(find(db)), totalTime |-> totalTime(find(db))])

\* GET /api/metrics/stats: counts by chaoticMap and by size class, built in
\* an object of the handler's own
MetricsStats(r) ==
    view(r, "metrics-stats", [NoView EXCEPT !.count = Cardinality(find(db))])

Next ==
    \/ Tick
    \/ \E r \in ReqIds : UploadSingle(r)
    \/ \E r \in ReqIds : UploadFields(r)
    \/ \E r \in ReqIds : EncryptHandler(r)
    \/ \E r \in ReqIds : EncryptTransformed(r)
    \/ \E r \in ReqIds : EncryptMeasured(r)
    \/ \E r \in ReqIds : EncryptSaved(r)
    \/ \E r \in ReqIds : DecryptHandler(r)
    \/ \E r \in ReqIds : DecryptTransformed(r)
    \/ \E r \in ReqIds : DecryptTransferred(r)
    \/ \E r \in ReqIds : StegoEncryptHandler(r)
    \/ \E r \in ReqIds : StegoEncryptTransformed(r)
    \/ \E r \in ReqIds : StegoEncryptMeasured(r)
    \/ \E r \in ReqIds : StegoEncryptSaved(r)
    \/ \E r \in ReqIds : StegoDecryptHandler(r)
    \/ \E r \in ReqIds : StegoDecryptTransformed(r)
    \/ \E r \in ReqIds : StegoDecryptTransferred(r)
    \/ \E r \in ReqIds : DeleteHandler(r)
    \/ \E r \in ReqIds : DeleteSettled(r)
    \/ \E id \in Ids : Download(id)
    \/ \E id \in Ids : DownloadStego(id)
    \/ \E r \in ReqIds : ListImages(r)
    \/ \E r \in ReqIds : AdminStats(r)
    \/ \E r \in ReqIds : MetricsAll(r)
    \/ \E r \in ReqIds : MetricsStats(r)

Spec == Init /\ [][Next]_vars

\* ------------------------------------------------------- the event loop
\* what the event loop runs for a request once its handler has been entered:
\* the handler up to its first await and the continuation of each await
Continue(r) ==
    \/ EncryptHandler(r) \/ EncryptTransformed(r) \/ EncryptMeasured(r) \/ EncryptSaved(r)
    \/ DecryptHandler(r) \/ DecryptTransformed(r) \/ DecryptTransferred(r)
    \/ StegoEncryptHandler(r) \/ StegoEncryptTransformed(r)
    \/ StegoEncryptMeasured(r) \/ StegoEncryptSaved(r)
    \/ StegoDecryptHandler(r) \/ StegoDecryptTransformed(r) \/ StegoDecryptTransferred(r)
    \/ DeleteSettled(r)

\* the requests a client can send, at one instant of the clock
Arrive(r) ==
    \/ UploadSingle(r) \/ UploadFields(r) \/ DeleteHandler(r)
    \/ ListImages(r) \/ AdminStats(r) \/ MetricsAll(r) \/ MetricsStats(r)

\* the clock moving on between the end of one request and the next one,
\* once the names of the instant are used up
TickBetween ==
    /\ \A r \in ReqIds : reqs[r].pc \in {"idle", "done"}
    /\ \E r \in ReqIds : reqs[r].pc = "idle"
    /\ \A rnd \in RandSuffix, name \in FileNames : ~FreshSuffix(filename(now, rnd, name))
    /\ Tick

NextLive ==
    \/ TickBetween
    \/ \E r \in ReqIds : Arrive(r)
    \/ \E r \in ReqIds : Continue(r)
    \/ \E id \in Ids : Download(id)
    \/ \E id \in Ids : DownloadStego(id)

\* Every pending callback is run: exec settles within its 30 s timeout, the
\* store's promises and the transfer's callback are taken to return.
LiveSpec ==
    /\ Init
    /\ [][NextLive]_vars
    /\ \A r \in ReqIds : WF_vars(Continue(r))

\* ------------------------------------------------- the ephemeral storage
\* The upload directory is /tmp on Render: a file can be gone before the
\* handler that owns it, or the DELETE of its record, comes to unlink it.
Evict(p) ==
    /\ existsSync(fs, p)
    /\ fs' = unlinkIfPresent(fs, p)
    /\ UNCHANGED <<reqs, db, now, nextId, downloaded>>

NextEvict ==
    \/ \E r \in ReqIds : UploadSingle(r)
    \/ \E r \in ReqIds : EncryptHandler(r)
    \/ \E r \in ReqIds : EncryptTransformed(r)
    \/ \E r \in ReqIds : EncryptMeasured(r)
    \/ \E r \in ReqIds : EncryptSaved(r)
    \/ \E r \in ReqIds : DecryptHandler(r)
    \/ \E r \in ReqIds : DecryptTransformed(r)
    \/ \E r \in ReqIds : DecryptTransferred(r)
    \/ \E r \in ReqIds : StegoDecryptHandler(r)
    \/ \E r \in ReqIds : StegoDecryptTransformed(r)
    \/ \E r \in ReqIds : DeleteHandler(r)
    \/ \E r \in ReqIds : DeleteSettled(r)
    \/ \E id \in Ids : Download(id)
    \/ \E p \in DOMAIN fs : Evict(p)

SpecEvict == Init /\ [][NextEvict]_vars

\* ------------------------------------------------ Math.random() as it is
\* POST /encrypt and POST /decrypt with the suffix an arbitrary value of
\* Math.random(): two uploads in one millisecond under one original name can
\* draw the same suffix.
UploadSingleAnySuffix(r) ==
    /\ multerSingle(r, FALSE)
    /\ reqs'[r].kind \in {"encrypt", "decrypt"}

NextAnySuffix ==
    \/ Tick
    \/ \E r \in ReqIds : UploadSingleAnySuffix(r)
    \/ \E r \in ReqIds : EncryptHandler(r)
    \/ \E r \in ReqIds : EncryptTransformed(r)
    \/ \E r \in ReqIds : EncryptMeasured(r)
    \/ \E r \in ReqIds : EncryptSaved(r)
    \/ \E r \in ReqIds : DecryptHandler(r)
    \/ \E r \in ReqIds : DecryptTransformed(r)
    \/ \E r \in ReqIds : DecryptTransferred(r)
    \/ \E id \in Ids : Download(id)

SpecAnySuffix == Init /\ [][NextAnySuffix]_vars

\* ================================================================== claims
Done(r) == reqs[r].pc = "done"
Staged(r) == {reqs[r].path, reqs[r].cover} \ {NoPath}
transformOp(kind) ==
    CASE kind = "encrypt" -> "encrypt"
      [] kind = "encrypt-stego" -> "embed"
      [] kind = "decrypt" -> "decrypt"
      [] OTHER -> "extract"

\* C1: when an encrypt or encrypt-stego request has ended, on whatever path,
\* none of the files staged for it (image; secret and cover) is on disk.
C1_StagedReleasedAtEnd ==
    \A r \in ReqIds :
        (reqs[r].kind \in EncryptKinds /\ Done(r))
            => \A p \in Staged(r) : ~existsSync(fs, p)

\* C2: when a decrypt or decrypt-stego response has completed, success or
\* failure, neither the staged input nor the produced output is on disk.
C2_DecryptLeavesNothing ==
    \A r \in ReqIds :
        (reqs[r].kind \in DecryptKinds /\ Done(r))
            => /\ \A p \in Staged(r) : ~existsSync(fs, p)
               /\ ~existsSync(fs, reqs[r].outPath)

\* C3: an encrypt or encrypt-stego request with a missing upload, or a key
\* absent or shorter than 8, ends with 400, has run no script, has created no
\* record, and has put no file on disk but its raw uploads.
C3_Invalid(r) ==
    /\ reqs[r].kind \in EncryptKinds
    /\ \/ reqs[r].path = NoPath
       \/ reqs[r].kind = "encrypt-stego" /\ reqs[r].cover = NoPath
       \/ Len(reqs[r].key) < 8

C3_ValidationFailsFast ==
    \A r \in ReqIds :
        C3_Invalid(r) =>
            /\ reqs[r].invocations = 0
            /\ reqs[r].doc = NoId /\ reqs[r].nsaved = 0
            /\ \A i \in DOMAIN db : db[i].originalPath \notin Staged(r)
            /\ \A p \in Staged(r) :
                  ~existsSync(fs, PyOutPath(transformOp(reqs[r].kind), p))
            /\ reqs[r].pc \in {"uploaded", "done"}
            /\ Done(r) => reqs[r].status = 400 /\ ~reqs[r].recordAtEnd

C3_Witness ==
    \E r \in ReqIds :
        /\ reqs[r].kind = "encrypt-stego" /\ Done(r)
        /\ reqs[r].path # NoPath /\ reqs[r].cover # NoPath
        /\ Len(reqs[r].key) = 7
        /\ reqs[r].status = 400
        /\ existsSync(fs, reqs[r].path) /\ existsSync(fs, reqs[r].cover)

\* C4: after a successful transformation a failed metrics run (success:
\* false, or a rejected invocation) does not end the request: it goes on to the
\* save, and when the save is accepted the response is the success response
\* and the record is completed with every metric at its default but the
\* elapsed time.
C4_MetricsFailed(r) ==
    /\ reqs[r].kind \in EncryptKinds
    /\ reqs[r].tres = "ok"
    /\ reqs[r].mres \in {"fail", "reject"}

C4_MetricsFailureAbsorbed ==
    \A r \in ReqIds :
        C4_MetricsFailed(r) =>
            /\ reqs[r].pc \in {"saving", "done"}
            /\ Done(r) => reqs[r].sres \in {"ok", "rejected"}
            /\ (Done(r) /\ reqs[r].sres = "ok") =>
                  /\ reqs[r].status = 200
                  /\ reqs[r].recordAtEnd
                  /\ reqs[r].respMetrics =
                        [encryptionTime |-> reqs[r].encryptionTime,
                         entropy |-> [original |-> 0, encrypted |-> 0],
                         NPCR |-> 0, UACI |-> 0, correlation |-> 0,
                         PSNR |-> 0, MSE |-> 0]
                  /\ reqs[r].doc \in DOMAIN db =>
                        /\ db[reqs[r].doc].status = "completed"
                        /\ db[reqs[r].doc].metrics =
                              [encryptionTime |-> reqs[r].encryptionTime,
                               entropy |-> [original |-> 0, encrypted |-> 0],
                               npcr |-> 0, uaci |-> 0]

C4_Witness ==
    \E r \in ReqIds :
        /\ C4_MetricsFailed(r) /\ Done(r) /\ reqs[r].sres = "ok"
        /\ reqs[r].mres = "reject"
        /\ reqs[r].encryptionTime > 0
        /\ reqs[r].doc \in DOMAIN db

\* C5 as stated: at the end of an encrypt or encrypt-stego request a record
\* of it is in the store if and only if its transformation succeeded.
C5_RecordIffTransformed ==
    \A r \in ReqIds :
        (reqs[r].kind \in EncryptKinds /\ Done(r))
            => (reqs[r].recordAtEnd <=> reqs[r].tres = "ok")

\* C5 as amended: at the end of an encrypt or encrypt-stego request a record
\* of it is in the store if and only if its transformation succeeded and the
\* store accepted the save.
C5_RecordIffTransformedAndSaved ==
    \A r \in ReqIds :
        (reqs[r].kind \in EncryptKinds /\ Done(r))
            => (reqs[r].recordAtEnd <=> (reqs[r].tres = "ok" /\ reqs[r].sres = "ok"))

C5_Witness ==
    \E r \in ReqIds :
        /\ reqs[r].kind \in EncryptKinds /\ Done(r)
        /\ reqs[r].tres = "ok" /\ reqs[r].sres = "rejected"
        /\ ~reqs[r].recordAtEnd
        /\ existsSync(fs, reqs[r].outPath)

\* C6: an encrypt request answered with success has created exactly one
\* record, which no other request created; the imageId of the response is the
\* id of that record; and the record's metrics.encryptionTime is the time
\* measured from the start of the handler to the end of the transformation,
\* which is the encryptionTime of the response.
C6_Succeeded(r) == reqs[r].kind = "encrypt" /\ reqs[r].status = 200

C6_OneRecordWithMeasuredTime ==
    \A r \in ReqIds :
        C6_Succeeded(r) =>
            /\ reqs[r].nsaved = 1
            /\ reqs[r].recordAtEnd
            /\ reqs[r].imageId = reqs[r].doc /\ reqs[r].doc # NoId
            /\ \A r2 \in ReqIds \ {r} : reqs[r2].doc # reqs[r].doc
            /\ Cardinality({i \in DOMAIN db : db[i].originalPath = reqs[r].path}) <= 1
            /\ reqs[r].respTime = reqs[r].settledAt - reqs[r].startTime
            /\ reqs[r].imageId \in DOMAIN db =>
                  /\ db[reqs[r].imageId].originalPath = reqs[r].path
                  /\ db[reqs[r].imageId].metrics.encryptionTime = reqs[r].respTime

C6_Witness ==
    \E r \in ReqIds :
        /\ C6_Succeeded(r)
        /\ reqs[r].imageId \in DOMAIN db
        /\ reqs[r].respTime > 0
        /\ \E r2 \in ReqIds \ {r} : C6_Succeeded(r2)

\* C7: a delete that finds its record answers 200, and from then on the
\* record is not in the store and neither of its two files is on disk; a
\* delete that finds no record answers 404, and its step changes neither the
\* store nor the disk.
C7_DeleteOutcome ==
    \A r \in ReqIds :
        (reqs[r].kind = "delete" /\ Done(r)) =>
            IF reqs[r].found
            THEN /\ reqs[r].status = 200
                 /\ reqs[r].id \notin DOMAIN db
                 /\ ~existsSync(fs, reqs[r].image.encryptedPath)
                 /\ ~existsSync(fs, reqs[r].image.originalPath)
                 /\ reqs[r].image.encryptedPath # NoPath
                 /\ reqs[r].image.originalPath # NoPath
            ELSE reqs[r].status = 404

C7_NotFoundStep ==
    \A r \in ReqIds :
        (reqs[r].kind = "delete" /\ ~Done(r) /\ reqs'[r].pc = "done")
            => /\ reqs'[r].found <=> reqs[r].id \in DOMAIN db
               /\ ~reqs'[r].found => (db' = db /\ fs' = fs)

C8_TransformErrorHintsAndReleases ==
    \A r \in ReqIds :
        (reqs[r].kind \in DecryptKinds /\ Done(r) /\ reqs[r].tres \in {"fail", "reject"})
            => /\ reqs[r].status = 500
               /\ reqs[r].hint
               /\ ~existsSync(fs, reqs[r].path)

C10_Pair(r1, r2) ==
    /\ reqs[r1].kind = "encrypt" /\ reqs[r1].status = 200
    /\ reqs[r2].kind = "decrypt" /\ Done(r2) /\ reqs[r2].status = 200
    /\ reqs[r2].served # NoContent
    /\ reqs[r2].content = PyEncrypt(reqs[r1].content, reqs[r1].key, chaoticMapOf(reqs[r1].map))
    /\ reqs[r2].key = reqs[r1].key

MetricFields == {"encryptionTime", "entropy", "NPCR", "UACI", "correlation", "PSNR", "MSE"}

C11_StoredMetricsAreResponseMetrics ==
    \A r \in ReqIds :
        (reqs[r].kind \in EncryptKinds /\ reqs[r].status = 200
           /\ reqs[r].imageId \in DOMAIN db)
        => LET stored == db[reqs[r].imageId].metrics
               sent == reqs[r].respMetrics
           IN /\ stored.encryptionTime = sent.encryptionTime
              /\ stored.entropy = sent.entropy
              /\ MetricFields \subseteq DOMAIN stored
              /\ \A f \in MetricFields : stored[f] = sent[f]

\* C12: when save() rejects after a successful transformation the request
\* ends with 500, no record of it is in the store, and the output the script
\* wrote stays on disk.
C12_SaveRejected(r) ==
    /\ reqs[r].kind \in EncryptKinds /\ Done(r)
    /\ reqs[r].tres = "ok" /\ reqs[r].sres = "rejected"

C12_SaveFailureIsFatalWithoutRollback ==
    \A r \in ReqIds :
        C12_SaveRejected(r) =>
            /\ reqs[r].status = 500 /\ reqs[r].sent = 1
            /\ reqs[r].imageId = NoId
            /\ ~reqs[r].recordAtEnd /\ reqs[r].nsaved = 0
            /\ reqs[r].doc \notin DOMAIN db
            /\ \A i \in DOMAIN db : db[i].encryptedPath # reqs[r].outPath
            /\ existsSync(fs, reqs[r].outPath)
            /\ fs[reqs[r].outPath].of = reqs[r].content

C12_Witness ==
    \E r \in ReqIds :
        /\ C12_SaveRejected(r)
        /\ reqs[r].kind = "encrypt"
        /\ chaoticMapOf(reqs[r].map) \in ChaoticMapEnum
        /\ reqs[r].status = 500

\* C13: within a request the stages follow one another: a script is called
\* only after validation has passed; the metrics script only after the
\* transformation returned success, and only in encrypt and encrypt-stego;
\* save() only after the metrics run has settled; the success response only
\* after save() was accepted; and the handler moves from one await to the next
\* in the fixed order.
C13_Validated(q) ==
    /\ q.path # NoPath
    /\ q.kind = "encrypt-stego" => q.cover # NoPath
    /\ IF q.kind \in EncryptKinds THEN Len(q.key) >= 8 ELSE Len(q.key) > 0

C13_StageOrder ==
    \A r \in ReqIds :
        LET q == reqs[r] IN
        /\ q.invocations >= 1 => (q.kind \in EncryptKinds \cup DecryptKinds /\ C13_Validated(q))
        /\ q.pc = "transforming" => (q.invocations = 1 /\ q.tres = "none" /\ q.mres = "none")
        /\ (q.pc \in {"measuring", "saving"} \/ q.mres # "none" \/ q.invocations > 1)
              => (q.kind \in EncryptKinds /\ q.tres = "ok" /\ q.invocations = 2)
        /\ q.pc = "measuring" => (q.mres = "none" /\ q.sres = "none" /\ q.doc = NoId)
        /\ (q.pc = "saving" \/ q.sres # "none" \/ q.doc # NoId) => q.mres # "none"
        /\ q.pc = "saving" => (q.sres = "none" /\ q.status = 0)
        /\ (q.kind \in EncryptKinds /\ q.status = 200) => (q.sres = "ok" /\ q.pc = "done")
        /\ q.pc = "transferring" => (q.kind \in DecryptKinds /\ q.tres = "ok")

C13_Edges ==
    {<<"idle", "uploaded">>, <<"idle", "deleting">>, <<"deleting", "done">>,
     <<"uploaded", "transforming">>, <<"uploaded", "done">>,
     <<"transforming", "measuring">>, <<"transforming", "transferring">>,
     <<"transforming", "done">>, <<"measuring", "saving">>, <<"saving", "done">>,
     <<"transferring", "done">>}

C13_Step ==
    \A r \in ReqIds :
        reqs'[r].pc # reqs[r].pc =>
            \/ <<reqs[r].pc, reqs'[r].pc>> \in C13_Edges
            \/ /\ reqs'[r].kind \in ViewKinds     \* a view has no stages
               /\ <<reqs[r].pc, reqs'[r].pc>> = <<"idle", "done">>

C13_StagesRunInOrder == [](C13_StageOrder) /\ [][C13_Step]_vars

C13_Witness ==
    \E r \in ReqIds :
        /\ reqs[r].kind = "encrypt-stego" /\ Done(r) /\ reqs[r].status = 200
        /\ reqs[r].invocations = 2
        /\ reqs[r].mres = "ok" /\ reqs[r].sres = "ok"

\* C14: whatever the metrics script printed, the metrics of an encrypt
\* request have PSNR and MSE at 0 and those of an encrypt-stego request have
\* entropy, NPCR, UACI and correlation at 0, in the handler, in the response
\* and in every path of the stored record.
C14_ZeroEntropy == [original |-> 0, encrypted |-> 0]

C14_InCategoryOnly(kind, m) ==
    IF kind = "encrypt"
    THEN m.PSNR = 0 /\ m.MSE = 0
    ELSE /\ m.entropy = C14_ZeroEntropy
         /\ m.NPCR = 0 /\ m.UACI = 0 /\ m.correlation = 0

C14_MetricsPerCategory ==
    \A r \in ReqIds :
        reqs[r].kind \in EncryptKinds =>
            /\ C14_InCategoryOnly(reqs[r].kind, reqs[r].metrics)
            /\ C14_InCategoryOnly(reqs[r].kind, reqs[r].respMetrics)
            /\ reqs[r].doc \in DOMAIN db =>
                  LET stored == db[reqs[r].doc].metrics IN
                  /\ \A f \in (DOMAIN stored) \cap {"PSNR", "MSE"} :
                        reqs[r].kind = "encrypt" => stored[f] = 0
                  /\ reqs[r].kind = "encrypt-stego" =>
                        /\ stored.entropy = C14_ZeroEntropy
                        /\ stored.npcr = 0 /\ stored.uaci = 0
                        /\ \A f \in (DOMAIN stored) \cap {"NPCR", "UACI", "correlation"} :
                              stored[f] = 0

C14_Witness ==
    \E r \in ReqIds :
        /\ reqs[r].kind = "encrypt-stego" /\ reqs[r].status = 200
        /\ reqs[r].mres = "ok"
        /\ reqs[r].respMetrics.PSNR = 3
        /\ reqs[r].doc \in DOMAIN db

\* ---------------------------------------------------------------------- C15
\* C15: one call of runPythonScript starts one process and settles once: the
\* calls started and the calls settled differ by one exactly while a request
\* waits for a script; the call yields a document only when exec reported no
\* error and the whole of stdout parsed, and rejects on a non-zero exit, a
\* timeout or overflow, or unparsable output; an encrypt or encrypt-stego
\* request makes at most two calls, a decrypt or decrypt-stego request at
\* most one, any other request none.
C15_Awaiting(q) == q.pc \in {"transforming", "measuring"}

C15_LastOutcome(q) == IF q.settled = 1 THEN q.tres ELSE q.mres

C15_OneStartOneSettle ==
    \A r \in ReqIds :
        LET q == reqs[r] IN
        /\ q.settled = q.invocations - (IF C15_Awaiting(q) THEN 1 ELSE 0)
        /\ q.kind \in EncryptKinds => q.invocations <= 2
        /\ q.kind \in DecryptKinds => q.invocations <= 1
        /\ q.kind \notin EncryptKinds \cup DecryptKinds => q.invocations = 0
        /\ q.settled = 0 => q.run = NoRun
        /\ q.settled >= 1 =>
             /\ C15_LastOutcome(q) # "reject" =>
                  /\ q.run.error = "none"
                  /\ jsonParses(q.run.stdout)
                  /\ C15_LastOutcome(q) = q.run.stdout
             /\ (q.run.error # "none" \/ ~jsonParses(q.run.stdout)) =>
                  C15_LastOutcome(q) = "reject"

\* one request's script exited with a non-zero status after printing a
\* document and was rejected; another made both of its two calls
C15_Witness ==
    /\ \E r \in ReqIds :
         /\ reqs[r].settled = 1 /\ reqs[r].tres = "reject"
         /\ reqs[r].run = [error |-> "exit", stdout |-> "fail"]
    /\ \E r \in ReqIds :
         /\ reqs[r].kind \in EncryptKinds
         /\ reqs[r].invocations = 2 /\ reqs[r].settled = 2
         /\ reqs[r].run.error = "killed"

\* ---------------------------------------------------------------------- C16
\* C16: no two requests are ever given the same staging path, so that no
\* request's script reads and no request's cleanup unlinks a file another
\* request staged.
C16_StagedPathsUnique ==
    \A r1 \in ReqIds, r2 \in ReqIds :
        r1 # r2 => Staged(r1) \cap Staged(r2) = {}

\* ---------------------------------------------------------------------- C17
\* C17: a stored record is never modified after its creation: every step
\* other than the DELETE of that record's id leaves the record, and the
\* files its encryptedPath and originalPath name, as they were.
C17_Files(d) == {d.encryptedPath, d.originalPath} \ {NoPath}

C17_DeleteOf(id) ==
    \E r \in ReqIds :
        /\ reqs[r].kind = "delete" /\ reqs[r].pc = "deleting" /\ reqs[r].id = id
        /\ reqs'[r].pc = "done"

C17_Step ==
    \A id \in DOMAIN db :
        \/ C17_DeleteOf(id)
        \/ /\ id \in DOMAIN db'
           /\ db'[id] = db[id]
           /\ \A p \in C17_Files(db[id]) :
                /\ existsSync(fs', p) <=> existsSync(fs, p)
                /\ existsSync(fs, p) => fs'[p] = fs[p]

C18_Step ==
    \A r \in ReqIds :
        LET q == reqs[r]
            t == reqs'[r]
        IN
        /\ (q.kind = "delete" /\ q.pc = "deleting" /\ t.pc = "done" /\ q.id \in DOMAIN db)
             => /\ q.id \notin DOMAIN db'
                /\ t.status = 200 /\ t.sent = 1
                /\ \A p \in C17_Files(db[q.id]) : ~existsSync(fs', p)
        /\ (q.kind \in DecryptKinds /\ q.pc = "transferring" /\ t.pc = "done")
             => /\ t.status = q.status /\ t.sent = q.sent
                /\ ~existsSync(fs', q.path) /\ ~existsSync(fs', q.outPath)
        /\ (q.kind \in DecryptKinds /\ q.pc = "transforming" /\ t.tres = "fail")
             => /\ t.status = 500 /\ t.hint /\ t.sent = 1
                /\ ~existsSync(fs', q.path)

C18_ReleaseToleratesAbsence == [][C18_Step]_vars

\* a record whose files were gone from disk has been deleted with a 200
C18_Witness ==
    \E r \in ReqIds :
        /\ reqs[r].kind = "delete" /\ Done(r) /\ reqs[r].found
        /\ reqs[r].absentAtRelease
        /\ reqs[r].status = 200
        /\ reqs[r].id \notin DOMAIN db

\* ---------------------------------------------------------------------- C19
\* C19: every request that has entered its handler ends: it reaches the end
\* of the handler having sent exactly one response; at no time has a request
\* sent two, and none ends having sent none.
C19_AtMostOneResponse ==
    \A r \in ReqIds :
        /\ reqs[r].sent <= 1
        /\ Done(r) => reqs[r].sent = 1
        /\ reqs[r].sent = 1 => reqs[r].status \in {200, 400, 404, 500}

C20_Creator(id) == {r \in ReqIds : reqs[r].doc = id /\ reqs[r].sres = "ok"}

C20_RecordTypeAndStatus ==
    \A id \in DOMAIN db :
        /\ db[id].status = "completed"
        /\ db[id].encryptionType \in {"basic", "steganography"}
        /\ Cardinality(C20_Creator(id)) = 1
        /\ \A r \in C20_Creator(id) :
             /\ reqs[r].kind = "encrypt" <=> db[id].encryptionType = "basic"
             /\ reqs[r].kind = "encrypt-stego" <=> db[id].encryptionType = "steganography"

\* the store holds a record of each flow
C20_Witness ==
    \E i \in DOMAIN db, j \in DOMAIN db :
        /\ db[i].encryptionType = "basic" /\ db[j].encryptionType = "steganography"
        /\ \E r \in C20_Creator(j) : reqs[r].kind = "encrypt-stego" /\ Done(r)

====
